---- MODULE Spec2Model ----
(***************************************************************************)
(* PawSight (src/app.py): a FastAPI service that loads two joblib models   *)
(* at import time and scores incident records on POST /predict, plus the   *)
(* demo page's client script that renders the response.                    *)
(*                                                                         *)
(* Numbers that are floats in the program are fixed-point integers here:   *)
(* a severity or a probability is held in thousandths (47125 is 47.125).   *)
(* JSON values are records [k, v, s]: k is the JSON type, v the number     *)
(* (an integer, or tenths for a "float"), s the text.                      *)
(***************************************************************************)
EXTENDS Integers, Sequences, FiniteSets, TLC

VARIABLES
    phase,          \* position of the module's top-level code / the process
    priority_model, \* the global priority_model (app.py:13)
    severity_model, \* the global severity_model (app.py:14)
    loads,          \* history: joblib.load calls completed, per model
    req,            \* per worker thread: the request it is running
    failed,         \* history: some request was ended by an inference error
    form,           \* demo page: the value of every input element
    typed,          \* demo page: inputs the user changed since the last quick fill
    fetch,          \* demo page: the predict() call waiting for its response
    panel,          \* demo page: the elements of the result card
    err             \* demo page: the element with id "err"

server_vars == <<phase, priority_model, severity_model, loads, req, failed>>
page_vars == <<form, typed, fetch, panel, err>>
vars == <<phase, priority_model, severity_model, loads, req, failed,
          form, typed, fetch, panel, err>>

(***************************************************************************)
(* Bounds of the model.                                                    *)
(***************************************************************************)
MaxEdits == 1       \* fields of a preset record a caller changes
MaxTyped == 1       \* inputs of the page the user changes after a quick fill

\* Worker threads that run the endpoints.
Workers == {"w1"}

(***************************************************************************)
(* JSON values.                                                            *)
(***************************************************************************)
IntV(n) == [k |-> "int", v |-> n, s |-> ""]
StrV(t) == [k |-> "str", v |-> 0, s |-> t]
FloatV(tenths) == [k |-> "float", v |-> tenths, s |-> ""]
NullV == [k |-> "null", v |-> 0, s |-> ""]
Pair(key, val) == [key |-> key, val |-> val]

\* The set of keys of a JSON object / Python dict held as a sequence of pairs.
Keys(obj) == {obj[i].key : i \in 1..Len(obj)}
HasKey(obj, key) == \E i \in 1..Len(obj) : obj[i].key = key

\* dict lookup: the value of the last pair with that key.
Get(obj, key) ==
    obj[CHOOSE i \in 1..Len(obj) :
            /\ obj[i].key = key
            /\ \A j \in (i + 1)..Len(obj) : obj[j].key # key].val

(***************************************************************************)
(* The input schema IncidentInput and FEATURE_COLS.                        *)
(***************************************************************************)
StrFields ==
    <<"neighborhood", "animal_type", "age_group", "behavior", "mobility",
      "traffic_risk", "weather", "report_channel", "visible_injury">>

FlagFields ==
    <<"near_traffic", "near_school", "very_thin", "bleeding", "open_wound",
      "pregnant_or_nursing", "has_collar">>

\* Field(ge=.., le=..) of every int field, in declaration order.
IntBounds ==
    <<[name |-> "animal_count", ge |-> 1, le |-> 10],
      [name |-> "near_traffic", ge |-> 0, le |-> 1],
      [name |-> "near_school", ge |-> 0, le |-> 1],
      [name |-> "very_thin", ge |-> 0, le |-> 1],
      [name |-> "bleeding", ge |-> 0, le |-> 1],
      [name |-> "open_wound", ge |-> 0, le |-> 1],
      [name |-> "pregnant_or_nursing", ge |-> 0, le |-> 1],
      [name |-> "has_collar", ge |-> 0, le |-> 1],
      [name |-> "reporter_confidence", ge |-> 1, le |-> 5],
      [name |-> "report_hour", ge |-> 0, le |-> 23],
      [name |-> "report_dayofweek", ge |-> 0, le |-> 6],
      [name |-> "report_month", ge |-> 1, le |-> 12]>>

IntFields == [i \in 1..Len(IntBounds) |-> IntBounds[i].name]

\* The fields of IncidentInput in declaration order (the order of model_dump).
ModelFields == StrFields \o IntFields

StrFieldSet == {StrFields[i] : i \in 1..Len(StrFields)}
IntFieldSet == {IntFields[i] : i \in 1..Len(IntFields)}

BoundOf == [f \in IntFieldSet |->
    IntBounds[CHOOSE i \in 1..Len(IntBounds) : IntBounds[i].name = f]]

\* FEATURE_COLS with two neighbouring names exchanged.
FEATURE_COLS_Swapped ==
    <<"neighborhood", "animal_type", "age_group",
      "behavior", "mobility", "traffic_risk",
      "weather", "report_channel", "visible_injury",
      "animal_count",
      "near_school", "near_traffic", "very_thin", "bleeding", "open_wound",
      "pregnant_or_nursing", "has_collar", "reporter_confidence",
      "report_hour", "report_dayofweek", "report_month">>

FEATURE_COLS ==
    <<"neighborhood", "animal_type", "age_group",
      "behavior", "mobility", "traffic_risk",
      "weather", "report_channel", "visible_injury",
      "animal_count",
      "near_traffic", "near_school", "very_thin", "bleeding", "open_wound",
      "pregnant_or_nursing", "has_collar", "reporter_confidence",
      "report_hour", "report_dayofweek", "report_month">>

Range(seq) == {seq[i] : i \in 1..Len(seq)}

(***************************************************************************)
(* Request validation: pydantic's lax-mode parsing of IncidentInput.       *)
(***************************************************************************)
\* Decimal strings a caller may send; int("...") of each.
DigitStrings == [t \in {"0", "1", "2", "5", "6", "11", "24"} |->
    CASE t = "0" -> 0 [] t = "1" -> 1 [] t = "2" -> 2 [] t = "5" -> 5
      [] t = "6" -> 6 [] t = "11" -> 11 [] t = "24" -> 24]

\* An int field: an int is taken as is, a float with no fractional part and a
\* decimal string are converted, anything else is a type error.
IntParses(val) ==
    \/ val.k = "int"
    \/ val.k = "float" /\ val.v % 10 = 0
    \/ val.k = "str" /\ val.s \in DOMAIN DigitStrings

IntParse(val) ==
    CASE val.k = "int" -> val.v
      [] val.k = "float" -> val.v \div 10
      [] val.k = "str" -> DigitStrings[val.s]

\* FieldError with the le= constraint of Field(...) dropped.
FieldErrorNoUpper(raw, f) ==
    IF ~HasKey(raw, f) THEN "missing"
    ELSE LET val == Get(raw, f) IN
         IF f \in StrFieldSet
         THEN IF val.k = "str" THEN "ok" ELSE "string_type"
         ELSE IF ~IntParses(val) THEN "int_parsing"
              ELSE IF IntParse(val) < BoundOf[f].ge THEN "greater_than_equal"
              ELSE "ok"

\* The error of one field, or "ok".
FieldError(raw, f) ==
    IF ~HasKey(raw, f) THEN "missing"
    ELSE LET val == Get(raw, f) IN
         IF f \in StrFieldSet
         THEN IF val.k = "str" THEN "ok" ELSE "string_type"
         ELSE IF ~IntParses(val) THEN "int_parsing"
              ELSE LET n == IntParse(val) IN
                   IF n < BoundOf[f].ge THEN "greater_than_equal"
                   ELSE IF n > BoundOf[f].le THEN "less_than_equal"
                   ELSE "ok"

\* ValidationErrors with the str fields left unchecked.
ValidationErrorsIntOnly(raw) ==
    {e \in {[loc |-> f, type |-> FieldError(raw, f)] : f \in IntFieldSet} :
        e.type # "ok"}
    \cup {[loc |-> f, type |-> "missing"] : f \in {g \in StrFieldSet : ~HasKey(raw, g)}}

\* The fields a 422 response names, with the constraint each violates.
ValidationErrors(raw) ==
    {e \in {[loc |-> f, type |-> FieldError(raw, f)] : f \in StrFieldSet \cup IntFieldSet} :
        e.type # "ok"}

\* The parsed value of a field that has no error.
Coerce(raw, f) ==
    IF f \in StrFieldSet THEN Get(raw, f) ELSE IntV(IntParse(Get(raw, f)))

\* IncidentInput(**raw).model_dump(): the declared fields, in declaration
\* order, with their parsed values; keys that are no field are dropped.
ModelDump(raw) ==
    [i \in 1..Len(ModelFields) |-> Pair(ModelFields[i], Coerce(raw, ModelFields[i]))]

(***************************************************************************)
(* to_dataframe.                                                           *)
(***************************************************************************)
\* pd.DataFrame([payload])[FEATURE_COLS]: one row, the columns FEATURE_COLS in
\* that order, selected by name; KeyError when a column is missing.
to_dataframe(payload) ==
    IF Range(FEATURE_COLS) \subseteq Keys(payload)
    THEN [i \in 1..Len(FEATURE_COLS) |-> Pair(FEATURE_COLS[i], Get(payload, FEATURE_COLS[i]))]
    ELSE <<Pair("KeyError", NullV)>>

(***************************************************************************)
(* The two joblib artifacts.  Their content is not in the repository: an   *)
(* artifact is one of a few fixed scikit-learn pipelines, each a           *)
(* deterministic function of the row it is given.                          *)
(***************************************************************************)
\* Categories of the select boxes of the demo page, taken as the training
\* categories; neighborhood is free text.
KnownCategories ==
    [animal_type |-> {"Dog", "Cat"},
     age_group |-> {"Puppy/Kitten", "Adult", "Senior", "Unknown"},
     report_channel |-> {"Call", "WhatsApp", "App", "Walk-in", "Email"},
     behavior |-> {"Calm", "Fearful", "Aggressive", "Weak", "Unknown"},
     mobility |-> {"Normal", "Limping", "Immobile", "Unknown"},
     visible_injury |-> {"Yes", "No"},
     traffic_risk |-> {"Low", "Medium", "High"},
     weather |-> {"Clear", "Rain", "Heatwave", "Cold"}]

\* The row holds a category the encoder never saw.
HasUnknown(X) ==
    \E i \in 1..Len(X) :
        /\ X[i].key \in DOMAIN KnownCategories
        /\ X[i].val.s \notin KnownCategories[X[i].key]

Col(X, name) == Get(X, name).v

Signals(X) ==
    Col(X, "bleeding") + Col(X, "open_wound") + Col(X, "very_thin")
        + Col(X, "near_traffic") + Col(X, "near_school")

\* Priority pipelines joblib.load may return.  proba: the pipeline has
\* predict_proba; proba_ok: calling it works; steps: the keys of named_steps;
\* classes: classes_ of the final estimator; strict: the encoder raises on an
\* unseen category.
PriorityArtifacts ==
    {[name |-> "forest", proba |-> TRUE, proba_ok |-> TRUE, steps |-> {"prep", "model"},
      classes |-> <<"P1", "P2", "P3">>, strict |-> FALSE],
     [name |-> "svc", proba |-> FALSE, proba_ok |-> FALSE, steps |-> {"prep", "model"},
      classes |-> <<"P1", "P2", "P3">>, strict |-> FALSE],
     [name |-> "renamed", proba |-> TRUE, proba_ok |-> TRUE, steps |-> {"prep", "clf"},
      classes |-> <<"P1", "P2", "P3">>, strict |-> FALSE],
     [name |-> "noproba", proba |-> TRUE, proba_ok |-> FALSE, steps |-> {"prep", "model"},
      classes |-> <<"P1", "P2", "P3">>, strict |-> FALSE],
     [name |-> "twoclass", proba |-> TRUE, proba_ok |-> TRUE, steps |-> {"prep", "model"},
      classes |-> <<"P1", "P3">>, strict |-> TRUE]}

\* Severity pipelines joblib.load may return: a linear regressor, in
\* thousandths, not confined to 0..100.
SeverityArtifacts ==
    {[name |-> "wide", intercept |-> 0 - 8370, w_signal |-> 23500,
      w_count |-> 1005, strict |-> FALSE],
     [name |-> "high", intercept |-> 43996, w_signal |-> 30000,
      w_count |-> 1000, strict |-> TRUE]}

NoModel == [name |-> "none"]

Ok(val) == [ok |-> TRUE, val |-> val]
Raise(what) == [ok |-> FALSE, val |-> what]

\* The label the classifier gives the row.
Label(m, X) ==
    LET urgent == Col(X, "bleeding") = 1 \/ Col(X, "open_wound") = 1
        soon == Col(X, "very_thin") = 1 \/ Col(X, "near_traffic") = 1
    IN  IF urgent THEN "P1"
        ELSE IF soon /\ "P2" \in Range(m.classes) THEN "P2"
        ELSE "P3"

\* priority_model.predict(X)[0]
PriorityPredict(m, X) ==
    IF m.strict /\ HasUnknown(X) THEN Raise("ValueError") ELSE Ok(Label(m, X))

\* severity_model.predict(X)[0]
SeverityPredict(m, X) ==
    IF m.strict /\ HasUnknown(X) THEN Raise("ValueError")
    ELSE Ok(m.intercept + m.w_signal * Signals(X) + m.w_count * Col(X, "animal_count"))

\* priority_model.predict_proba(X)[0]: one probability per entry of classes_,
\* in the order of classes_, summing to 1000.
PredictProba(m, X) ==
    IF ~m.proba_ok THEN Raise("AttributeError")
    ELSE IF m.strict /\ HasUnknown(X) THEN Raise("ValueError")
    ELSE LET n == Len(m.classes)
             rest == 300 \div (n - 1)
             top == 1000 - rest * (n - 1)
         IN  Ok([i \in 1..n |-> IF m.classes[i] = Label(m, X) THEN top ELSE rest])

\* hasattr(priority_model, "predict_proba")
HasPredictProba(m) == m.proba

\* list(priority_model.named_steps["model"].classes_)
Classes(m) == IF "model" \in m.steps THEN Ok(m.classes) ELSE Raise("KeyError")

(***************************************************************************)
(* The result composition of predict.                                      *)
(***************************************************************************)
Min(a, b) == IF a < b THEN a ELSE b
Max(a, b) == IF a > b THEN a ELSE b

\* Clamp without the lower limit.
ClampUpperOnly(x) == Min(100000, x)

\* max(0.0, min(100.0, pred_severity)), in thousandths.
Clamp(x) == Max(0, Min(100000, x))

\* round(x, 2) of a non-negative x: to the nearest hundredth, a tie to the
\* even hundredth; the result is still in thousandths.
Round2(x) ==
    LET q == x \div 10
        r == x % 10
    IN  IF r < 5 THEN 10 * q
        ELSE IF r > 5 THEN 10 * (q + 1)
        ELSE IF q % 2 = 0 THEN 10 * q ELSE 10 * (q + 1)

NoneV == [k |-> "null", items |-> <<>>]
DictV(items) == [k |-> "dict", items |-> items]

\* ProbsDict with enumerate starting one entry late.
ProbsDictShifted(classes, p) ==
    DictV([i \in 1..Len(classes) |-> Pair(classes[i], p[(i % Len(classes)) + 1])])

\* {cls: float(p[i]) for i, cls in enumerate(classes)}: a key keeps its first
\* position and its last value.
ProbsDict(classes, p) ==
    LET first(i) == \A j \in 1..(i - 1) : classes[j] # classes[i]
        last(c) == CHOOSE i \in 1..Len(classes) :
                      /\ classes[i] = c
                      /\ \A j \in 1..Len(classes) : classes[j] = c => j <= i
        keep == SelectSeq([i \in 1..Len(classes) |-> i], first)
    IN  DictV([n \in 1..Len(keep) |-> Pair(classes[keep[n]], p[last(classes[keep[n]])])])

ResultKeys == {"priority_prediction", "severity_prediction", "priority_probabilities"}

NoResponse ==
    [status |-> 0, keys |-> {}, priority_prediction |-> "",
     severity_prediction |-> 0, priority_probabilities |-> NoneV, detail |-> {},
     status_text |-> ""]

\* The dict predict returns, sent with status 200.
ResultResponse(label, severity, probs) ==
    [status |-> 200, keys |-> ResultKeys, priority_prediction |-> label,
     severity_prediction |-> Round2(severity), priority_probabilities |-> probs,
     detail |-> {}]

\* FastAPI's answer to a body that fails IncidentInput: 422 naming the fields.
ValidationResponse(errors) ==
    [NoResponse EXCEPT !.status = 422, !.keys = {"detail"}, !.detail = errors]

\* The framework's answer to an exception raised inside predict.
ServerErrorResponse == [NoResponse EXCEPT !.status = 500]


(***************************************************************************)
(* Request bodies.  A caller starts from one of the three records the demo *)
(* page's quick-fill buttons hold and changes up to MaxEdits fields.       *)
(***************************************************************************)
PresetRow(nb, at, ag, ch, bh, mo, tr, we, vi, cnt, flags, conf, hr, dow, mon) ==
    <<Pair("neighborhood", StrV(nb)), Pair("animal_type", StrV(at)),
      Pair("age_group", StrV(ag)), Pair("behavior", StrV(bh)),
      Pair("mobility", StrV(mo)), Pair("traffic_risk", StrV(tr)),
      Pair("weather", StrV(we)), Pair("report_channel", StrV(ch)),
      Pair("visible_injury", StrV(vi)), Pair("animal_count", IntV(cnt))>>
    \o [i \in 1..Len(FlagFields) |-> Pair(FlagFields[i], IntV(flags[i]))]
    \o <<Pair("reporter_confidence", IntV(conf)), Pair("report_hour", IntV(hr)),
         Pair("report_dayofweek", IntV(dow)), Pair("report_month", IntV(mon))>>

fillLow ==
    PresetRow("Kombinat", "Cat", "Adult", "App", "Calm", "Normal", "Low", "Clear",
              "No", 1, <<0, 0, 0, 0, 0, 0, 1>>, 3, 14, 3, 5)
fillMed ==
    PresetRow("Kombinat", "Dog", "Adult", "Call", "Fearful", "Limping", "Medium",
              "Rain", "No", 1, <<1, 0, 1, 0, 0, 0, 0>>, 4, 18, 2, 11)
fillHigh ==
    PresetRow("Kombinat", "Dog", "Senior", "Call", "Weak", "Immobile", "High",
              "Heatwave", "Yes", 1, <<1, 1, 1, 1, 1, 0, 0>>, 5, 21, 5, 8)

Presets == {fillLow, fillMed, fillHigh}

\* Values a caller may put in a field.  "absent" removes the key.
Absent == [k |-> "absent", v |-> 0, s |-> ""]

\* Every int field just outside its range.
RangeEdits ==
    UNION {{[key |-> f, val |-> IntV(BoundOf[f].ge - 1)],
            [key |-> f, val |-> IntV(BoundOf[f].le + 1)]} : f \in IntFieldSet}

\* Every field left out.
MissingEdits == {[key |-> f, val |-> Absent] : f \in StrFieldSet \cup IntFieldSet}

\* Values of another JSON type, and values pydantic converts.
TypeEdits ==
    {[key |-> "animal_count", val |-> x] :
        x \in {NullV, StrV("Fox"), StrV("11"), StrV("5"), FloatV(25), FloatV(20)}}
    \cup {[key |-> "near_traffic", val |-> x] : x \in {StrV("2"), FloatV(5)}}
    \cup {[key |-> "neighborhood", val |-> x] : x \in {NullV, IntV(7), StrV("")}}

\* Other legal values: they change what the models return.
LegalEdits ==
    {[key |-> "animal_count", val |-> IntV(10)],
     [key |-> "near_school", val |-> IntV(1)],
     [key |-> "bleeding", val |-> IntV(1)],
     [key |-> "animal_type", val |-> StrV("Fox")]}

\* A key that is no field of IncidentInput, and the keys sent in reverse order.
ExtraKey == "notes"
ReverseKeys == "(reverse)"

Edits ==
    RangeEdits \cup MissingEdits \cup TypeEdits \cup LegalEdits
    \cup {[key |-> ExtraKey, val |-> StrV("Fox")], [key |-> ReverseKeys, val |-> NullV]}

RECURSIVE EditSetsUpTo(_)
EditSetsUpTo(n) ==
    IF n = 0 THEN {{}}
    ELSE LET prev == EditSetsUpTo(n - 1)
         IN  prev \cup {es \cup {e} : es \in prev,
                                      e \in Edits}

\* Sets of at most MaxEdits edits, no two of the same key.
EditSets ==
    {es \in EditSetsUpTo(MaxEdits) : \A a, b \in es : a.key = b.key => a = b}

Reverse(seq) == [i \in 1..Len(seq) |-> seq[Len(seq) + 1 - i]]

\* The body with the edits applied: a value replaced in place, a key removed,
\* a new key appended.
ApplyEdits(body, es) ==
    LET edited(key) == \E e \in es : e.key = key
        valOf(key) == (CHOOSE e \in es : e.key = key).val
        keep(p) == ~(edited(p.key) /\ valOf(p.key) = Absent)
        kept == SelectSeq(body, keep)
        changed == [i \in 1..Len(kept) |->
                       IF edited(kept[i].key) THEN Pair(kept[i].key, valOf(kept[i].key))
                       ELSE kept[i]]
        added == IF edited(ExtraKey) THEN <<Pair(ExtraKey, valOf(ExtraKey))>> ELSE <<>>
    IN  IF edited(ReverseKeys) THEN Reverse(changed \o added) ELSE changed \o added

\* The JSON bodies POST /predict is given.
Bodies == {ApplyEdits(b, es) : b \in Presets, es \in EditSets}


(***************************************************************************)
(* State.                                                                  *)
(***************************************************************************)
\* A worker with no request: the locals of predict are unset.
Idle ==
    [pc |-> "idle", endpoint |-> "", origin |-> "", raw |-> <<>>, inp |-> <<>>, X |-> <<>>, pred_priority |-> "",
     pred_severity |-> 0, p |-> <<>>, probs |-> NoneV, calls |-> <<>>,
     response |-> NoResponse]

\* One call of a model method: what was called, with which row, what came back.
Call(fn, arg, ret) == [fn |-> fn, arg |-> arg, ret |-> ret]

(***************************************************************************)
(* Startup: the top-level code of app.py.                                  *)
(***************************************************************************)
\* priority_model = joblib.load(PRIORITY_MODEL_PATH)
LoadPriorityModel ==
    /\ phase = "load_priority"
    /\ \E m \in PriorityArtifacts :
        /\ priority_model' = m
        /\ loads' = [loads EXCEPT !.priority = @ + 1]
        /\ phase' = "load_severity"
    /\ UNCHANGED <<severity_model, req, failed, page_vars>>

\* joblib.load raises (file missing or corrupt): the import fails.
LoadPriorityFails ==
    /\ phase = "load_priority"
    /\ phase' = "aborted"
    /\ UNCHANGED <<priority_model, severity_model, loads, req, failed, page_vars>>

\* severity_model = joblib.load(SEVERITY_MODEL_PATH)
LoadSeverityModel ==
    /\ phase = "load_severity"
    /\ \E m \in SeverityArtifacts :
        /\ severity_model' = m
        /\ loads' = [loads EXCEPT !.severity = @ + 1]
        /\ phase' = "create_app"
    /\ UNCHANGED <<priority_model, req, failed, page_vars>>

\* LoadSeverityFails with the exception caught: the import goes on.
LoadSeverityFailsCaught ==
    /\ phase = "load_severity"
    /\ phase' = "create_app"
    /\ UNCHANGED <<priority_model, severity_model, loads, req, failed, page_vars>>

LoadSeverityFails ==
    /\ phase = "load_severity"
    /\ phase' = "aborted"
    /\ UNCHANGED <<priority_model, severity_model, loads, req, failed, page_vars>>

\* app = FastAPI(...) and the route decorators; the server then accepts requests.
CreateApp ==
    /\ phase = "create_app"
    /\ phase' = "serving"
    /\ UNCHANGED <<priority_model, severity_model, loads, req, failed, page_vars>>

(***************************************************************************)
(* GET /health.                                                            *)
(***************************************************************************)
\* health reporting an error once an inference call has failed.
healthAfterFailure ==
    IF failed THEN [NoResponse EXCEPT !.status = 503, !.keys = {"status"},
                                      !.status_text = "degraded"]
    ELSE [NoResponse EXCEPT !.status = 200, !.keys = {"status"}, !.status_text = "ok"]

\* return {"status": "ok"}
health == [NoResponse EXCEPT !.status = 200, !.keys = {"status"}, !.status_text = "ok"]

Health(w) ==
    /\ phase = "serving"
    /\ req[w].pc = "idle"
    /\ req' = [req EXCEPT ![w] = [Idle EXCEPT !.pc = "done", !.endpoint = "/health",
                                              !.origin = "api", !.response = health]]
    /\ UNCHANGED <<phase, priority_model, severity_model, loads, failed, page_vars>>

(***************************************************************************)
(* POST /predict.                                                          *)
(***************************************************************************)
\* The framework parses the body into IncidentInput before it calls predict:
\* a body with errors is answered 422 and predict is not called.
Admit(w, body, origin) ==
    LET errors == ValidationErrors(body) IN
    IF errors # {}
    THEN req' = [req EXCEPT ![w] =
             [Idle EXCEPT !.pc = "done", !.endpoint = "/predict", !.origin = origin,
                          !.raw = body, !.response = ValidationResponse(errors)]]
    ELSE req' = [req EXCEPT ![w] =
             [Idle EXCEPT !.pc = "to_dataframe", !.endpoint = "/predict",
                          !.origin = origin, !.raw = body, !.inp = ModelDump(body)]]

\* POST /predict from any client of the API.
Receive(w) ==
    /\ phase = "serving"
    /\ req[w].pc = "idle"
    /\ \E body \in Bodies : Admit(w, body, "api")
    /\ UNCHANGED <<phase, priority_model, severity_model, loads, failed, page_vars>>

\* POST /predict sent by the demo page's fetch.
PageReceive(w) ==
    /\ phase = "serving"
    /\ req[w].pc = "idle"
    /\ fetch.state = "sent"
    /\ Admit(w, fetch.body, "page")
    /\ fetch' = [fetch EXCEPT !.state = "waiting"]
    /\ UNCHANGED <<phase, priority_model, severity_model, loads, failed, form, typed,
                   panel, err>>

\* Fail with the exception swallowed: predict goes on to its return statement.
FailSwallowed(w, call) ==
    /\ req' = [req EXCEPT ![w].pc = "return", ![w].calls = Append(@, call)]
    /\ failed' = TRUE

\* Fail with the failed call tried again.
FailRetried(w, call) ==
    /\ req' = [req EXCEPT ![w].calls = Append(@, call)]
    /\ failed' = TRUE

\* An exception inside predict: the framework answers 500.
Fail(w, call) ==
    /\ req' = [req EXCEPT ![w].pc = "done",
                          ![w].calls = Append(@, call),
                          ![w].response = ServerErrorResponse]
    /\ failed' = TRUE

\* ToDataframe with X a module-level name: the assignment is seen by every
\* request that is between its to_dataframe call and its last use of X.
ToDataframeShared(w) ==
    /\ req[w].pc = "to_dataframe"
    /\ req' = [v \in DOMAIN req |->
                 IF v = w
                 THEN [req[v] EXCEPT !.pc = "predict_priority",
                                     !.X = to_dataframe(req[w].inp)]
                 ELSE IF req[v].pc \in {"predict_priority", "predict_severity",
                                       "predict_proba"}
                 THEN [req[v] EXCEPT !.X = to_dataframe(req[w].inp)]
                 ELSE req[v]]
    /\ UNCHANGED <<phase, priority_model, severity_model, loads, failed, page_vars>>

\* X = to_dataframe(inp.model_dump())
ToDataframe(w) ==
    /\ req[w].pc = "to_dataframe"
    /\ req' = [req EXCEPT ![w].pc = "predict_priority",
                          ![w].X = to_dataframe(req[w].inp)]
    /\ UNCHANGED <<phase, priority_model, severity_model, loads, failed, page_vars>>

\* pred_priority = priority_model.predict(X)[0]
PredictPriority(w) ==
    /\ req[w].pc = "predict_priority"
    /\ LET r == PriorityPredict(priority_model, req[w].X)
           call == Call("priority_model.predict", req[w].X, r)
       IN  IF r.ok
           THEN /\ req' = [req EXCEPT ![w].pc = "predict_severity",
                                      ![w].pred_priority = r.val,
                                      ![w].calls = Append(@, call)]
                /\ UNCHANGED failed
           ELSE Fail(w, call)
    /\ UNCHANGED <<phase, priority_model, severity_model, loads, page_vars>>

\* pred_severity = float(severity_model.predict(X)[0]), the clamp of line 87,
\* probs = None and the hasattr test.
PredictSeverity(w) ==
    /\ req[w].pc = "predict_severity"
    /\ LET r == SeverityPredict(severity_model, req[w].X)
           call == Call("severity_model.predict", req[w].X, r)
       IN  IF r.ok
           THEN /\ req' = [req EXCEPT
                    ![w].pc = IF HasPredictProba(priority_model)
                              THEN "predict_proba" ELSE "return",
                    ![w].pred_severity = Clamp(r.val),
                    ![w].probs = NoneV,
                    ![w].calls = Append(@, call)]
                /\ UNCHANGED failed
           ELSE Fail(w, call)
    /\ UNCHANGED <<phase, priority_model, severity_model, loads, page_vars>>

\* p = priority_model.predict_proba(X)[0]
PredictProbabilities(w) ==
    /\ req[w].pc = "predict_proba"
    /\ LET r == PredictProba(priority_model, req[w].X)
           call == Call("priority_model.predict_proba", req[w].X, r)
       IN  IF r.ok
           THEN /\ req' = [req EXCEPT ![w].pc = "classes",
                                      ![w].p = r.val,
                                      ![w].calls = Append(@, call)]
                /\ UNCHANGED failed
           ELSE Fail(w, call)
    /\ UNCHANGED <<phase, priority_model, severity_model, loads, page_vars>>

\* classes = list(priority_model.named_steps["model"].classes_) and the dict
\* comprehension of line 94.
BuildProbs(w) ==
    /\ req[w].pc = "classes"
    /\ LET r == Classes(priority_model)
           call == Call("priority_model.named_steps", <<>>, r)
       IN  IF r.ok
           THEN /\ req' = [req EXCEPT ![w].pc = "return",
                                      ![w].probs = ProbsDict(r.val, req[w].p),
                                      ![w].calls = Append(@, call)]
                /\ UNCHANGED failed
           ELSE Fail(w, call)
    /\ UNCHANGED <<phase, priority_model, severity_model, loads, page_vars>>

\* The return statement of predict.
Return(w) ==
    /\ req[w].pc = "return"
    /\ req' = [req EXCEPT ![w].pc = "done",
                          ![w].response = ResultResponse(req[w].pred_priority,
                                                         req[w].pred_severity,
                                                         req[w].probs)]
    /\ UNCHANGED <<phase, priority_model, severity_model, loads, failed, page_vars>>

\* The response is sent and the worker thread takes the next request; a
\* response to the page's fetch resolves it.
Finish(w) ==
    /\ req[w].pc = "done"
    /\ req' = [req EXCEPT ![w] = Idle]
    /\ fetch' = IF req[w].origin = "page"
                THEN [fetch EXCEPT !.state = "responded", !.response = req[w].response]
                ELSE fetch
    /\ UNCHANGED <<phase, priority_model, severity_model, loads, failed, form, typed,
                   panel, err>>

(***************************************************************************)
(* The demo page's script.  A number input holds "" or a number, kept in   *)
(* tenths; a JavaScript number is the JSON value it is sent as.            *)
(***************************************************************************)
NumIn(tenths) == [k |-> "num", v |-> tenths, s |-> ""]
Empty == StrV("")

\* The value a quick-fill function gives one input.
InputOf(val) == IF val.k = "int" THEN NumIn(10 * val.v) ELSE val

\* The form as a quick-fill function leaves it.
FormOf(preset) ==
    [neighborhood |-> InputOf(Get(preset, "neighborhood")),
     animal_type |-> InputOf(Get(preset, "animal_type")),
     age_group |-> InputOf(Get(preset, "age_group")),
     behavior |-> InputOf(Get(preset, "behavior")),
     mobility |-> InputOf(Get(preset, "mobility")),
     traffic_risk |-> InputOf(Get(preset, "traffic_risk")),
     weather |-> InputOf(Get(preset, "weather")),
     report_channel |-> InputOf(Get(preset, "report_channel")),
     visible_injury |-> InputOf(Get(preset, "visible_injury")),
     animal_count |-> InputOf(Get(preset, "animal_count")),
     near_traffic |-> InputOf(Get(preset, "near_traffic")),
     near_school |-> InputOf(Get(preset, "near_school")),
     very_thin |-> InputOf(Get(preset, "very_thin")),
     bleeding |-> InputOf(Get(preset, "bleeding")),
     open_wound |-> InputOf(Get(preset, "open_wound")),
     pregnant_or_nursing |-> InputOf(Get(preset, "pregnant_or_nursing")),
     has_collar |-> InputOf(Get(preset, "has_collar")),
     reporter_confidence |-> InputOf(Get(preset, "reporter_confidence")),
     report_hour |-> InputOf(Get(preset, "report_hour")),
     report_dayofweek |-> InputOf(Get(preset, "report_dayofweek")),
     report_month |-> InputOf(Get(preset, "report_month"))]

\* The forms of fillLow, fillMed and fillHigh.
PresetForms == {FormOf(preset) : preset \in Presets}

\* The page as loaded: every input empty, every select on its first option.
EmptyForm ==
    [neighborhood |-> Empty,
     animal_type |-> Empty,
     age_group |-> Empty,
     behavior |-> Empty,
     mobility |-> Empty,
     traffic_risk |-> Empty,
     weather |-> Empty,
     report_channel |-> Empty,
     visible_injury |-> Empty,
     animal_count |-> Empty,
     near_traffic |-> Empty,
     near_school |-> Empty,
     very_thin |-> Empty,
     bleeding |-> Empty,
     open_wound |-> Empty,
     pregnant_or_nursing |-> Empty,
     has_collar |-> Empty,
     reporter_confidence |-> Empty,
     report_hour |-> Empty,
     report_dayofweek |-> Empty,
     report_month |-> Empty]

\* A JavaScript number, as JSON.stringify writes it and the server reads it.
JsNumber(tenths) == IF tenths % 10 = 0 THEN IntV(tenths \div 10) ELSE FloatV(tenths)

\* The number a JavaScript number value stands for, in tenths.
Tenths(val) == IF val.k = "int" THEN 10 * val.v ELSE val.v

\* num(id)
num(f, id) == IF f[id] = Empty THEN NullV ELSE JsNumber(f[id].v)

\* str(id)
str(f, id) == f[id]

\* payload()
payload(f) ==
    <<Pair("neighborhood", str(f, "neighborhood")),
      Pair("animal_type", str(f, "animal_type")),
      Pair("age_group", str(f, "age_group")),
      Pair("behavior", str(f, "behavior")),
      Pair("mobility", str(f, "mobility")),
      Pair("traffic_risk", str(f, "traffic_risk")),
      Pair("weather", str(f, "weather")),
      Pair("report_channel", str(f, "report_channel")),
      Pair("visible_injury", str(f, "visible_injury")),
      Pair("animal_count", num(f, "animal_count")),
      Pair("near_traffic", num(f, "near_traffic")),
      Pair("near_school", num(f, "near_school")),
      Pair("very_thin", num(f, "very_thin")),
      Pair("bleeding", num(f, "bleeding")),
      Pair("open_wound", num(f, "open_wound")),
      Pair("pregnant_or_nursing", num(f, "pregnant_or_nursing")),
      Pair("has_collar", num(f, "has_collar")),
      Pair("reporter_confidence", num(f, "reporter_confidence")),
      Pair("report_hour", num(f, "report_hour")),
      Pair("report_dayofweek", num(f, "report_dayofweek")),
      Pair("report_month", num(f, "report_month"))>>

NoError == [shown |-> FALSE, text |-> ""]

\* showError(msg) and clearError()
showError(msg) == [shown |-> TRUE, text |-> msg]
clearError == NoError

\* clamp01 with only the values above 0 replaced.
clamp01PositiveOnly(value) ==
    IF value = Empty THEN value
    ELSE IF ~(value.v = 0 \/ value.v = 10) /\ value.v > 0 THEN NumIn(10)
    ELSE value

\* The body of the loop of clamp01Fields for one input value.
clamp01(value) ==
    IF value = Empty THEN value
    ELSE IF ~(value.v = 0 \/ value.v = 10)
    THEN (IF value.v > 0 THEN NumIn(10) ELSE NumIn(0))
    ELSE value

\* clamp01Fields(), over its list of ids.
clamp01Fields(f) ==
    [f EXCEPT !.near_traffic = clamp01(@),
              !.near_school = clamp01(@),
              !.very_thin = clamp01(@),
              !.bleeding = clamp01(@),
              !.open_wound = clamp01(@),
              !.pregnant_or_nursing = clamp01(@),
              !.has_collar = clamp01(@)]

\* String(x).trim()
Trim(t) == IF t \in {" ", "  "} THEN "" ELSE t

\* validateRequired(p): the message shown, or "" when p passes.
validateRequired(p) ==
    IF \E i \in 1..Len(p) : p[i].key \in StrFieldSet /\ Trim(p[i].val.s) = ""
    THEN "Please complete all required fields (including dropdowns) before predicting."
    ELSE IF \E i \in 1..Len(p) : p[i].key \in IntFieldSet /\ p[i].val = NullV
    THEN "Please fill all numeric fields (including 0/1 flags) before predicting."
    ELSE ""

\* recAction with the tests of the two thresholds exchanged.
recActionSwapped(priority, severity) ==
    IF priority = "P1" \/ severity >= 45000 THEN "Dispatch immediately"
    ELSE IF priority = "P2" \/ severity >= 75000 THEN "Respond soon / assess"
    ELSE "Monitor / schedule follow-up"

\* recAction(priority, severity), severity in thousandths.
recAction(priority, severity) ==
    IF priority = "P1" \/ severity >= 75000 THEN "Dispatch immediately"
    ELSE IF priority = "P2" \/ severity >= 45000 THEN "Respond soon / assess"
    ELSE "Monitor / schedule follow-up"

Dash == [k |-> "dash", v |-> 0]
Shown(kind, v) == [k |-> kind, v |-> v]

\* The limits of setSeverity with Math.min and Math.max exchanged.
jsClampSwapped(sev) == Min(0, Max(100000, sev))

\* Math.max(0, Math.min(100, sev)), in thousandths.
jsClamp(sev) == Max(0, Min(100000, sev))

\* v.toFixed(2) of a non-negative v: hundredths, a tie going up.
toFixed2(v) == (v + 5) \div 10

\* Math.round(v) of a non-negative v.
MathRound(v) == (v + 500) \div 1000

\* One line of setProbs: (probs[label] * 100).toFixed(1) + "%", in tenths of a
\* percent; a label the mapping lacks gives NaN.
ProbText(probs, label) ==
    IF probs.k = "null" THEN Shown("n/a", 0)
    ELSE IF label \in Keys(probs.items)
    THEN Shown("percent1", (Get(probs.items, label) * 100 + 50) \div 100)
    ELSE Shown("NaN", 0)

InitPanel ==
    [badge |-> "p3", priority_text |-> "Priority: -", severity_val |-> Dash, sev_pct |-> 0,
     sev_bar |-> Dash, action_val |-> "-", p1p |-> Dash, p2p |-> Dash, p3p |-> Dash]

\* setBadge, setSeverity, the recommended action and setProbs for one response.
Rendered(out) ==
    [badge |-> IF out.priority_prediction = "P1" THEN "p1"
               ELSE IF out.priority_prediction = "P2" THEN "p2" ELSE "p3",
     priority_text |-> "Priority: " \o out.priority_prediction,
     severity_val |-> Shown("fixed2", toFixed2(jsClamp(out.severity_prediction))),
     sev_pct |-> MathRound(jsClamp(out.severity_prediction)),
     sev_bar |-> Shown("percent", jsClamp(out.severity_prediction)),
     action_val |-> recAction(out.priority_prediction, out.severity_prediction),
     p1p |-> ProbText(out.priority_probabilities, "P1"),
     p2p |-> ProbText(out.priority_probabilities, "P2"),
     p3p |-> ProbText(out.priority_probabilities, "P3")]

NoFetch == [state |-> "none", body |-> <<>>, response |-> NoResponse]

\* predict() of the page, from its first line to the fetch call or an early
\* return, run on the form f.
PagePredict(f) ==
    LET f1 == clamp01Fields(f)
        p == payload(f1)
        msg == validateRequired(p)
        conf == Get(p, "reporter_confidence")
    IN  /\ form' = f1
        /\ IF msg # ""
           THEN err' = showError(msg) /\ fetch' = NoFetch
           ELSE IF Tenths(conf) < 10 \/ Tenths(conf) > 50
           THEN /\ err' = showError("Reporter Confidence must be between 1 and 5.")
                /\ fetch' = NoFetch
           ELSE /\ err' = clearError
                /\ fetch' = [state |-> "sent", body |-> p, response |-> NoResponse]

\* No predict() call of the page is waiting for the server.
PageQuiet == fetch.state \in {"none", "settled"}

\* A click on one of the three quick-fill buttons.
QuickFill ==
    /\ phase = "serving"
    /\ PageQuiet
    /\ \E f \in PresetForms : PagePredict(f)
    /\ typed' = 0
    /\ UNCHANGED <<server_vars, panel>>

\* Values the user puts into one input.
Typings ==
    {[id |-> f, val |-> x] : f \in Range(FlagFields), x \in {NumIn(20)}}
    \cup {[id |-> "bleeding", val |-> x] : x \in {Empty, NumIn(0 - 10), NumIn(5), NumIn(10)}}
    \cup {[id |-> "reporter_confidence", val |-> x] : x \in {NumIn(0), NumIn(60)}}
    \cup {[id |-> "animal_count", val |-> x] : x \in {Empty, NumIn(110), NumIn(25)}}
    \cup {[id |-> "animal_type", val |-> Empty], [id |-> "neighborhood", val |-> StrV(" ")]}

\* The user changes one input.
Type ==
    /\ phase = "serving"
    /\ PageQuiet
    /\ typed < MaxTyped
    /\ \E t \in Typings : form' = [form EXCEPT ![t.id] = t.val]
    /\ typed' = typed + 1
    /\ UNCHANGED <<server_vars, fetch, panel, err>>

\* A click on Predict.
ClickPredict ==
    /\ phase = "serving"
    /\ PageQuiet
    /\ PagePredict(form)
    /\ UNCHANGED <<server_vars, typed, panel>>

\* fetch rejects: the catch block.
FetchThrows ==
    /\ fetch.state = "sent"
    /\ err' = showError("Could not reach the API. Is the server running?")
    /\ fetch' = [fetch EXCEPT !.state = "settled"]
    /\ UNCHANGED <<server_vars, form, typed, panel>>

\* Render with the result card reset when the response is not ok.
RenderResetsOnError ==
    /\ fetch.state = "responded"
    /\ IF fetch.response.status # 200
       THEN err' = showError("API error") /\ panel' = InitPanel
       ELSE panel' = Rendered(fetch.response) /\ UNCHANGED err
    /\ fetch' = [fetch EXCEPT !.state = "settled"]
    /\ UNCHANGED <<server_vars, form, typed>>

\* The response arrived: the lines of predict() after the await.
Render ==
    /\ fetch.state = "responded"
    /\ IF fetch.response.status # 200
       THEN err' = showError("API error") /\ UNCHANGED panel
       ELSE panel' = Rendered(fetch.response) /\ UNCHANGED err
    /\ fetch' = [fetch EXCEPT !.state = "settled"]
    /\ UNCHANGED <<server_vars, form, typed>>

\* The process starts importing app.py; no page is open.
Init ==
    /\ phase = "load_priority"
    /\ priority_model = NoModel
    /\ severity_model = NoModel
    /\ loads = [priority |-> 0, severity |-> 0]
    /\ req = [w \in Workers |-> Idle]
    /\ failed = FALSE
    /\ form = EmptyForm
    /\ typed = 0
    /\ fetch = NoFetch
    /\ panel = InitPanel
    /\ err = NoError

Next ==
    \/ LoadPriorityModel
    \/ LoadPriorityFails
    \/ LoadSeverityModel
    \/ LoadSeverityFails
    \/ CreateApp
    \/ \E w \in Workers : Health(w)
    \/ \E w \in Workers : Receive(w)
    \/ \E w \in Workers : ToDataframe(w)
    \/ \E w \in Workers : PredictPriority(w)
    \/ \E w \in Workers : PredictSeverity(w)
    \/ \E w \in Workers : PredictProbabilities(w)
    \/ \E w \in Workers : BuildProbs(w)
    \/ \E w \in Workers : Return(w)
    \/ \E w \in Workers : Finish(w)

Spec == Init /\ [][Next]_vars

\* The service used through its demo page only.
NextPage ==
    \/ LoadPriorityModel
    \/ LoadPriorityFails
    \/ LoadSeverityModel
    \/ LoadSeverityFails
    \/ CreateApp
    \/ QuickFill
    \/ Type
    \/ ClickPredict
    \/ FetchThrows
    \/ Render
    \/ \E w \in Workers : PageReceive(w)
    \/ \E w \in Workers : ToDataframe(w)
    \/ \E w \in Workers : PredictPriority(w)
    \/ \E w \in Workers : PredictSeverity(w)
    \/ \E w \in Workers : PredictProbabilities(w)
    \/ \E w \in Workers : BuildProbs(w)
    \/ \E w \in Workers : Return(w)
    \/ \E w \in Workers : Finish(w)

SpecPage == Init /\ [][NextPage]_vars

\* Two worker threads of the server's thread pool: predict is a plain def, so
\* two requests run at the same time, their steps interleaved in any order.
PoolWorkers == {"w1", "w2"}

\* The bodies the two clients send: the three preset records, one with a
\* category no encoder saw and one with a count out of range.
ConcurrentBodies ==
    Presets \cup {ApplyEdits(fillMed, {[key |-> "animal_type", val |-> StrV("Fox")]}),
                  ApplyEdits(fillLow, {[key |-> "animal_count", val |-> IntV(11)]})}

\* POST /predict from one of two clients sending at the same time.
ReceiveConcurrent(w) ==
    /\ phase = "serving"
    /\ req[w].pc = "idle"
    /\ \E body \in ConcurrentBodies : Admit(w, body, "api")
    /\ UNCHANGED <<phase, priority_model, severity_model, loads, failed, page_vars>>

InitConcurrent ==
    /\ phase = "load_priority"
    /\ priority_model = NoModel
    /\ severity_model = NoModel
    /\ loads = [priority |-> 0, severity |-> 0]
    /\ req = [w \in PoolWorkers |-> Idle]
    /\ failed = FALSE
    /\ form = EmptyForm
    /\ typed = 0
    /\ fetch = NoFetch
    /\ panel = InitPanel
    /\ err = NoError

NextConcurrent ==
    \/ LoadPriorityModel
    \/ LoadPriorityFails
    \/ LoadSeverityModel
    \/ LoadSeverityFails
    \/ CreateApp
    \/ \E w \in PoolWorkers : Health(w)
    \/ \E w \in PoolWorkers : ReceiveConcurrent(w)
    \/ \E w \in PoolWorkers : ToDataframe(w)
    \/ \E w \in PoolWorkers : PredictPriority(w)
    \/ \E w \in PoolWorkers : PredictSeverity(w)
    \/ \E w \in PoolWorkers : PredictProbabilities(w)
    \/ \E w \in PoolWorkers : BuildProbs(w)
    \/ \E w \in PoolWorkers : Return(w)
    \/ \E w \in PoolWorkers : Finish(w)

SpecConcurrent == InitConcurrent /\ [][NextConcurrent]_vars


(***************************************************************************)
(* Properties.                                                             *)
(***************************************************************************)
\* Workers that ran predict to a response.
Answered == {w \in DOMAIN req : req[w].pc = "done" /\ req[w].endpoint = "/predict"}
Succeeded == {w \in Answered : req[w].response.status = 200}

\* The calls of one model method a request made.
CallsOf(w, fn) == SelectSeq(req[w].calls, LAMBDA c : c.fn = fn)

\* What severity_model.predict returned to the request, in thousandths.
Regression(w) == CallsOf(w, "severity_model.predict")[1].ret.val

\* C1: a successful predict response carries the regressor's value limited to
\* 0..100 and rounded to two decimals (below 0 gives 0, above 100 gives 100, in
\* between the nearest hundredth, a tie going to the even one), and the body
\* has the three result fields only, so no field holds the unclamped value.
C1_SeverityClampedAndRounded ==
    \A w \in Succeeded :
        LET x == Regression(w)
            sev == req[w].response.severity_prediction
        IN  /\ 0 <= sev /\ sev <= 100000
            /\ sev % 10 = 0
            /\ x <= 0 => sev = 0
            /\ x >= 100000 => sev = 100000
            /\ (0 < x /\ x < 100000) =>
                  /\ sev - x <= 5 /\ x - sev <= 5
                  /\ (sev - x = 5 \/ x - sev = 5) => (sev \div 10) % 2 = 0
            /\ req[w].response.keys =
                 {"priority_prediction", "severity_prediction", "priority_probabilities"}
            /\ (x < 0 \/ x > 100000) => sev # x

\* C1 witness: the regressor returned more than 100 and the response says 100.
C1_Witness ==
    \E w \in Succeeded : Regression(w) > 100000 /\ req[w].response.severity_prediction = 100000

\* The inclusive range the specification gives every numeric field.
SpecRange ==
    [animal_count |-> <<1, 10>>, reporter_confidence |-> <<1, 5>>,
     report_hour |-> <<0, 23>>, report_dayofweek |-> <<0, 6>>,
     report_month |-> <<1, 12>>, near_traffic |-> <<0, 1>>, near_school |-> <<0, 1>>,
     very_thin |-> <<0, 1>>, bleeding |-> <<0, 1>>, open_wound |-> <<0, 1>>,
     pregnant_or_nursing |-> <<0, 1>>, has_collar |-> <<0, 1>>]

\* A JSON number (an int, or a float held in tenths) outside lo..hi.
NumberOutside(val, lo, hi) ==
    \/ val.k = "int" /\ (val.v < lo \/ val.v > hi)
    \/ val.k = "float" /\ (val.v < 10 * lo \/ val.v > 10 * hi)

\* Some numeric field of the body holds a number outside its range.
SomeFieldOutOfRange(body) ==
    \E i \in 1..Len(body) :
        /\ body[i].key \in DOMAIN SpecRange
        /\ NumberOutside(body[i].val, SpecRange[body[i].key][1], SpecRange[body[i].key][2])

\* C2: a body with a numeric field outside its range is answered with a
\* validation error and scored by no model; a body that is accepted has every
\* numeric field inside its range, and the parsed record holds the numbers the
\* body held, none moved into range.
C2_OutOfRangeRejected ==
    \A w \in DOMAIN req :
        req[w].endpoint = "/predict" =>
            /\ SomeFieldOutOfRange(req[w].raw) =>
                  /\ req[w].pc = "done"
                  /\ req[w].response.status = 422
                  /\ req[w].calls = <<>> /\ req[w].inp = <<>>
            /\ req[w].inp # <<>> =>
                  \A i \in 1..Len(req[w].inp) :
                      LET f == req[w].inp[i].key
                          val == req[w].inp[i].val
                      IN  f \in DOMAIN SpecRange =>
                            /\ val.k = "int"
                            /\ SpecRange[f][1] <= val.v /\ val.v <= SpecRange[f][2]
                            /\ \A j \in 1..Len(req[w].raw) :
                                  (req[w].raw[j].key = f /\ req[w].raw[j].val.k = "int")
                                      => req[w].raw[j].val = val

\* C2 witness: animal_count = 11 was sent and answered 422 naming the field.
C2_Witness ==
    \E w \in Answered :
        /\ \E i \in 1..Len(req[w].raw) :
              req[w].raw[i].key = "animal_count" /\ req[w].raw[i].val = IntV(11)
        /\ req[w].response.status = 422
        /\ \E e \in req[w].response.detail : e.loc = "animal_count"

\* The 21 fields the specification requires.
RequiredFields ==
    {"neighborhood", "animal_type", "age_group", "behavior", "mobility",
     "traffic_risk", "weather", "report_channel", "visible_injury", "animal_count",
     "near_traffic", "near_school", "very_thin", "bleeding", "open_wound",
     "pregnant_or_nursing", "has_collar", "reporter_confidence", "report_hour",
     "report_dayofweek", "report_month"}

\* The body breaks a rule of the schema: a field is missing, a text field holds
\* no string, or a numeric field holds no whole number or one out of range.
BreaksSchema(body) ==
    \/ \E f \in RequiredFields : \A i \in 1..Len(body) : body[i].key # f
    \/ \E i \in 1..Len(body) :
        /\ body[i].key \in RequiredFields \ DOMAIN SpecRange
        /\ body[i].val.k # "str"
    \/ \E i \in 1..Len(body) :
        /\ body[i].key \in DOMAIN SpecRange
        /\ \/ body[i].val.k = "null"
           \/ body[i].val.k = "float" /\ body[i].val.v % 10 # 0
           \/ body[i].val.k = "str" /\ body[i].val.s \notin DOMAIN DigitStrings
           \/ NumberOutside(body[i].val, SpecRange[body[i].key][1],
                            SpecRange[body[i].key][2])
           \/ body[i].val.k = "str" /\ body[i].val.s \in DOMAIN DigitStrings
              /\ NumberOutside(IntV(DigitStrings[body[i].val.s]),
                               SpecRange[body[i].key][1], SpecRange[body[i].key][2])

\* C3: a request whose body misses a required field or breaks any other rule
\* of the schema ends with an error response and no call of a model method;
\* whenever a model method has been called, the body had passed validation.
C3_ValidationBeforeModels ==
    \A w \in DOMAIN req :
        req[w].endpoint = "/predict" =>
            /\ BreaksSchema(req[w].raw) =>
                  /\ req[w].pc = "done"
                  /\ req[w].response.status = 422
                  /\ req[w].response.keys \cap ResultKeys = {}
                  /\ req[w].calls = <<>>
            /\ req[w].calls # <<>> =>
                  ~BreaksSchema(req[w].raw) /\ req[w].inp # <<>>

\* C3 witness: a body without report_month was answered 422, no model called.
C3_Witness ==
    \E w \in Answered :
        /\ \A i \in 1..Len(req[w].raw) : req[w].raw[i].key # "report_month"
        /\ Len(req[w].raw) = 20
        /\ req[w].response.status = 422
        /\ req[w].calls = <<>>

\* The stages of predict that call into a model, in the order of the code.
StageOrder ==
    <<"priority_model.predict", "severity_model.predict",
      "priority_model.predict_proba", "priority_model.named_steps">>

\* C4: a failed call is the last thing its request did: the request is over,
\* answered with an error that holds none of the three result fields.  A
\* response with the result fields exists only when every stage ran, in order,
\* and none failed.
C4_FirstFailureShortCircuits ==
    \A w \in DOMAIN req :
        LET calls == req[w].calls IN
        /\ \A i \in 1..Len(calls) :
              ~calls[i].ret.ok =>
                  /\ i = Len(calls)
                  /\ req[w].pc = "done"
                  /\ req[w].response.status = 500
                  /\ req[w].response.keys \cap ResultKeys = {}
        /\ req[w].response.keys \cap ResultKeys # {} =>
              /\ req[w].response.keys = ResultKeys
              /\ req[w].response.status = 200
              /\ \A i \in 1..Len(calls) : calls[i].ret.ok /\ calls[i].fn = StageOrder[i]
              /\ Len(calls) = IF priority_model.proba THEN 4 ELSE 2

\* C4 witness: the lookup of the class labels failed after both predictions
\* and the probabilities had succeeded, and the answer is a bare error.
C4_Witness ==
    \E w \in Answered :
        /\ Len(req[w].calls) = 4
        /\ ~req[w].calls[4].ret.ok
        /\ req[w].response.status = 500

\* The response predict gives a row with these two models: the stages
\* composed in one step.
Scored(X, pm, sm) ==
    LET a == PriorityPredict(pm, X)
        b == SeverityPredict(sm, X)
        c == PredictProba(pm, X)
        d == Classes(pm)
    IN  IF ~a.ok \/ ~b.ok THEN ServerErrorResponse
        ELSE IF ~HasPredictProba(pm) THEN ResultResponse(a.val, Clamp(b.val), NoneV)
        ELSE IF ~c.ok \/ ~d.ok THEN ServerErrorResponse
        ELSE ResultResponse(a.val, Clamp(b.val), ProbsDict(d.val, c.val))

\* C5: an inference failure ends its own request only.  No request calls a
\* model method twice, a failed request holds exactly one failed call and one
\* error response, the process is still serving with the models it loaded, and
\* every answer given, also after a failure, is the one the two loaded models
\* give that request's row.
C5_FailureEndsOnlyItsRequest ==
    /\ \A w \in DOMAIN req :
          \A i, j \in 1..Len(req[w].calls) :
              req[w].calls[i].fn = req[w].calls[j].fn => i = j
    /\ \A w \in Answered :
          req[w].response.status = 500 =>
              Cardinality({i \in 1..Len(req[w].calls) : ~req[w].calls[i].ret.ok}) = 1
    /\ failed =>
          /\ phase = "serving"
          /\ priority_model \in PriorityArtifacts
          /\ severity_model \in SeverityArtifacts
    /\ \A w \in Answered :
          req[w].response.status # 422 =>
              req[w].response = Scored(req[w].X, priority_model, severity_model)

\* C5 witness: after an earlier request failed, a request got its result.
C5_Witness == failed /\ Succeeded # {}

\* The feature order the specification fixes.
SpecFeatureOrder ==
    <<"neighborhood", "animal_type", "age_group", "behavior", "mobility",
      "traffic_risk", "weather", "report_channel", "visible_injury", "animal_count",
      "near_traffic", "near_school", "very_thin", "bleeding", "open_wound",
      "pregnant_or_nursing", "has_collar", "reporter_confidence", "report_hour",
      "report_dayofweek", "report_month">>

\* C6: once built, the row has 21 columns in the fixed order, each holding the
\* validated record's field of that name (and the body's own value wherever
\* the body held it in the field's type, whatever the order of its keys);
\* building it never fails; every model call is given that row.
C6_FeatureVector ==
    \A w \in DOMAIN req :
        req[w].X # <<>> =>
            /\ Len(req[w].X) = 21
            /\ \A i \in 1..21 :
                  /\ req[w].X[i].key = SpecFeatureOrder[i]
                  /\ \E j \in 1..Len(req[w].inp) :
                        req[w].inp[j] = req[w].X[i]
                  /\ \A j \in 1..Len(req[w].raw) :
                        (/\ req[w].raw[j].key = SpecFeatureOrder[i]
                         /\ req[w].raw[j].val.k = req[w].X[i].val.k)
                            => req[w].raw[j].val = req[w].X[i].val
            /\ \A i \in 1..Len(req[w].calls) :
                  req[w].calls[i].fn # "priority_model.named_steps"
                      => req[w].calls[i].arg = req[w].X

\* C6 witness: a body sent with its keys in reverse order was scored by both
\* models.
C6_Witness ==
    \E w \in DOMAIN req :
        /\ Len(req[w].raw) = 21
        /\ req[w].raw[1].key = "report_month"
        /\ req[w].raw[21].key = "neighborhood"
        /\ Len(req[w].calls) >= 2
        /\ req[w].calls[1].fn = "priority_model.predict"
        /\ req[w].calls[2].fn = "severity_model.predict"

\* C8: in a successful response priority_probabilities is null exactly when
\* the loaded priority model has no predict_proba; otherwise its keys are the
\* labels the classifier knows, each once, and each label's value is the
\* probability predict_proba returned at that label's position.
C8_ProbabilitiesPassThrough ==
    \A w \in Succeeded :
        LET probs == req[w].response.priority_probabilities
            labels == priority_model.classes
        IN  /\ probs.k = "null" <=> ~priority_model.proba
            /\ probs.k # "null" =>
                  LET p == CallsOf(w, "priority_model.predict_proba")[1].ret.val IN
                  /\ probs.k = "dict"
                  /\ {probs.items[i].key : i \in 1..Len(probs.items)}
                        = {labels[i] : i \in 1..Len(labels)}
                  /\ \A i, j \in 1..Len(probs.items) :
                        probs.items[i].key = probs.items[j].key => i = j
                  /\ \A i \in 1..Len(probs.items) : \A n \in 1..Len(labels) :
                        labels[n] = probs.items[i].key => probs.items[i].val = p[n]

\* C8 witness: a response with the probabilities of a two-label classifier.
C8_Witness ==
    \E w \in Succeeded :
        /\ req[w].response.priority_probabilities.k = "dict"
        /\ Len(req[w].response.priority_probabilities.items) = 2

\* C10, as a state invariant: requests are only ever held while serving, and
\* serving means each model was loaded exactly once and is one of the
\* artifacts; an aborted start has answered and holds no request.
C10_LoadedBeforeServing ==
    /\ (\E w \in DOMAIN req : req[w].pc # "idle") => phase = "serving"
    /\ phase = "serving" =>
          /\ loads = [priority |-> 1, severity |-> 1]
          /\ priority_model \in PriorityArtifacts
          /\ severity_model \in SeverityArtifacts
    /\ loads.priority <= 1 /\ loads.severity <= 1

\* C10, as a step property: an aborted start stays aborted, and once serving
\* no step loads, replaces or changes either model.
C10_NoReload ==
    /\ phase = "aborted" => phase' = "aborted" /\ req' = req
    /\ phase = "serving" =>
          /\ phase' = "serving"
          /\ priority_model' = priority_model
          /\ severity_model' = severity_model
          /\ loads' = loads

\* C10: the two models are loaded once, before any request is admitted; a
\* failed load never reaches serving; nothing changes the models afterwards.
C10_ModelsLoadedOnceAtStartup == [](C10_LoadedBeforeServing) /\ [][C10_NoReload]_vars

\* C10 witness: a request is being scored, both models loaded once.
C10_Witness ==
    /\ \E w \in DOMAIN req : req[w].pc = "predict_severity"
    /\ loads = [priority |-> 1, severity |-> 1]


\* The page shows the result of the response its last predict() call got.
ShowsResult == fetch.state = "settled" /\ fetch.response.status = 200

\* C7 as stated: the action shown for a response is "dispatch immediately"
\* when priority is P1 or severity >= 75, else "respond soon / assess" when
\* priority is P2 or severity >= 45, else "monitor / schedule follow-up".
C7_AsStated ==
    ShowsResult =>
        LET priority == fetch.response.priority_prediction
            severity == fetch.response.severity_prediction
        IN  panel.action_val =
              IF priority = "P1" \/ severity >= 75000 THEN "dispatch immediately"
              ELSE IF priority = "P2" \/ severity >= 45000 THEN "respond soon / assess"
              ELSE "monitor / schedule follow-up"

\* C7, amended: the action shown is decided by the response's priority and its
\* clamped, rounded severity alone, by the stated rule, and is one of the
\* texts "Dispatch immediately", "Respond soon / assess" and "Monitor /
\* schedule follow-up", spelled as the script spells them; (P1, 10) and
\* (P3, 80) give the first and (P3, 20) the last.
C7_RecommendedAction ==
    /\ ShowsResult =>
          LET priority == fetch.response.priority_prediction
              severity == fetch.response.severity_prediction
          IN  panel.action_val =
                IF priority = "P1" \/ severity >= 75000 THEN "Dispatch immediately"
                ELSE IF priority = "P2" \/ severity >= 45000 THEN "Respond soon / assess"
                ELSE "Monitor / schedule follow-up"
    /\ recAction("P1", 10000) = "Dispatch immediately"
    /\ recAction("P3", 80000) = "Dispatch immediately"
    /\ recAction("P3", 20000) = "Monitor / schedule follow-up"

\* C7 witness: a P3 response whose severity was rounded up to 75.00 is shown
\* with the action of the highest tier.
C7_Witness ==
    /\ ShowsResult
    /\ fetch.response.priority_prediction = "P3"
    /\ fetch.response.severity_prediction = 75000
    /\ panel.action_val = "Dispatch immediately"

\* C9: the severity predict keeps after its clamp is the regressor's value
\* brought into 0..100, and clamping it again changes nothing; the page, which
\* clamps the severity of the response once more, shows that severity digit
\* for digit.
C9_ClampIdempotent ==
    /\ \A w \in DOMAIN req :
          req[w].pc \in {"predict_proba", "classes", "return"} =>
              LET x == Regression(w)
                  c == req[w].pred_severity
              IN  /\ 0 <= c /\ c <= 100000
                  /\ c = (IF x < 0 THEN 0 ELSE IF x > 100000 THEN 100000 ELSE x)
                  /\ Clamp(c) = c
    /\ ShowsResult =>
          /\ jsClamp(fetch.response.severity_prediction) = fetch.response.severity_prediction
          /\ panel.severity_val.k = "fixed2"
          /\ 10 * panel.severity_val.v = fetch.response.severity_prediction
          /\ panel.sev_bar.v = fetch.response.severity_prediction

\* C9 witness: the page shows 100.00 for a response that carried 100.
C9_Witness ==
    /\ ShowsResult
    /\ fetch.response.severity_prediction = 100000
    /\ panel.severity_val = Shown("fixed2", 10000)

\* The response one predict request gets when it is the only request running,
\* as a one-element set: validation, then the stages on its own row with the
\* two loaded models.
RunAlone(body, pm, sm) ==
    LET errors == ValidationErrors(body)
        rows == IF errors = {} THEN {to_dataframe(ModelDump(body))} ELSE {}
    IN  {ValidationResponse(errors) : e \in {errors} \ {{}}}
            \cup {Scored(X, pm, sm) : X \in rows}

\* Every request in flight holds the row of its own body.
C11_OwnRow ==
    \A w \in DOMAIN req :
        /\ req[w].inp # <<>> => req[w].inp = ModelDump(req[w].raw)
        /\ req[w].X # <<>> => req[w].X = to_dataframe(ModelDump(req[w].raw))
        /\ \A i \in 1..Len(req[w].calls) :
              req[w].calls[i].arg \in {<<>>, to_dataframe(ModelDump(req[w].raw))}

\* Every answer is the one the request gets when it runs alone.
C11_SameAsAlone ==
    \A w \in Answered :
        {req[w].response} = RunAlone(req[w].raw, priority_model, severity_model)

\* A step of a request leaves the two models and every other request as they are.
C11_NoSharedWrite ==
    phase = "serving" =>
        /\ priority_model' = priority_model
        /\ severity_model' = severity_model
        /\ phase' = phase
        /\ loads' = loads
        /\ \A w, v \in DOMAIN req :
              (req'[w] # req[w] /\ v # w) => req'[v] = req[v]

\* C11: predict requests that run at the same time, their steps interleaved in
\* any order, share the two models only and write nothing shared: a step of one
\* request changes neither the models nor the other request, each request works
\* on the row of its own body, and each response is the one that request gets
\* when it runs alone, a function of its body and the loaded models.
C11_ConcurrentRequestsIndependent ==
    [](C11_OwnRow /\ C11_SameAsAlone) /\ [][C11_NoSharedWrite]_vars

\* C11 witness: one request is answered with a result while another, admitted
\* with a different body, is between its two predictions; the two rows differ.
C11_Witness ==
    /\ req["w1"].pc = "done" /\ req["w1"].response.status = 200
    /\ req["w2"].pc = "predict_severity"
    /\ req["w1"].X # req["w2"].X
    /\ req["w2"].response = NoResponse

\* Every answer of health is 200 {"status": "ok"}, given without a model call.
C12_HealthAnswer ==
    \A w \in DOMAIN req :
        req[w].endpoint = "/health" =>
            /\ phase = "serving"
            /\ req[w].pc = "done"
            /\ req[w].response.status = 200
            /\ req[w].response.keys = {"status"}
            /\ req[w].response.status_text = "ok"
            /\ req[w].calls = <<>> /\ req[w].X = <<>>

\* While the process serves, a free worker can always run health.
C12_HealthAvailable ==
    phase = "serving" => \A w \in DOMAIN req : req[w].pc = "idle" => ENABLED Health(w)

\* A health call changes nothing but the record of the worker that runs it.
C12_HealthFrame ==
    \A w \in DOMAIN req :
        (req[w].pc = "idle" /\ req'[w].endpoint = "/health") =>
            /\ UNCHANGED <<phase, priority_model, severity_model, loads, failed>>
            /\ UNCHANGED page_vars
            /\ \A v \in DOMAIN req : v # w => req'[v] = req[v]

\* C12: once the process serves, every health call is answered 200 with
\* {"status": "ok"}, whatever the other worker is doing and whatever predict
\* requests succeeded or failed before; health calls no model and changes
\* neither the models nor any other request.
C12_HealthAlwaysOk ==
    [](C12_HealthAnswer /\ C12_HealthAvailable) /\ [][C12_HealthFrame]_vars

\* C12 witness: health answered ok after a predict request had failed and
\* while another predict request was between its stages.
C12_Witness ==
    /\ failed
    /\ req["w1"].endpoint = "/health" /\ req["w1"].response = health
    /\ req["w2"].pc = "predict_severity"

\* The flags of the request the page has sent are all 0 or 1.
C13_SentFlagsBinary ==
    fetch.state # "none" =>
        \A f \in Range(FlagFields) : Get(fetch.body, f) \in {IntV(0), IntV(1)}

\* C13 as stated: a click on Predict turns every flag input holding a number
\* other than 0 into 1, leaves 0, 1 and empty flag inputs as they are, and every
\* flag sent is 0 or 1.
C13_AsStated ==
    [][ClickPredict =>
          \A f \in Range(FlagFields) :
              IF form[f] = Empty \/ form[f].v = 0 \/ form[f].v = 10
              THEN form'[f] = form[f]
              ELSE form'[f] = NumIn(10)]_vars
    /\ [](C13_SentFlagsBinary)

\* C13: a click on Predict turns every flag input holding a number above 0
\* into 1 and every flag input holding a number below 0 into 0, leaves 0, 1
\* and empty flag inputs as they are, touches no other input, and every flag
\* the page sends is 0 or 1.
C13_FlagCoercion ==
    [][ClickPredict =>
          /\ \A f \in Range(FlagFields) :
                IF form[f] = Empty \/ form[f].v = 0 \/ form[f].v = 10
                THEN form'[f] = form[f]
                ELSE IF form[f].v > 0 THEN form'[f] = NumIn(10)
                ELSE form'[f] = NumIn(0)
          /\ \A id \in (DOMAIN form) \ Range(FlagFields) : form'[id] = form[id]]_vars
    /\ [](C13_SentFlagsBinary)

\* C13 witness: after the high-severity quick fill the user put -1 into the
\* bleeding input; the click on Predict made it 0 and the request sent says 0.
C13_Witness ==
    /\ typed = 1
    /\ form.open_wound = NumIn(10)
    /\ form.bleeding = NumIn(0)
    /\ fetch.state = "sent"
    /\ Get(fetch.body, "bleeding") = IntV(0)

\* The step is a call of the page's predict(): a click on Predict or on a
\* quick-fill button.
C14_PredictCalled == ClickPredict \/ QuickFill

\* The step ends a call of predict() that had sent its request: the response
\* was handled or the fetch was rejected.
C14_CallSettled == fetch.state \in {"sent", "responded"} /\ fetch'.state = "settled"

\* The four parts of the result card show the response out.
C14_ShowsAllOf(card, out) ==
    /\ card.priority_text = "Priority: " \o out.priority_prediction
    /\ card.badge = (IF out.priority_prediction = "P1" THEN "p1"
                     ELSE IF out.priority_prediction = "P2" THEN "p2" ELSE "p3")
    /\ card.severity_val = Shown("fixed2", out.severity_prediction \div 10)
    /\ card.sev_bar = Shown("percent", out.severity_prediction)
    /\ card.action_val = recAction(out.priority_prediction, out.severity_prediction)
    /\ card.p1p = ProbText(out.priority_probabilities, "P1")
    /\ card.p2p = ProbText(out.priority_probabilities, "P2")
    /\ card.p3p = ProbText(out.priority_probabilities, "P3")

C14_Step ==
    /\ panel' # panel =>
          /\ fetch.state = "responded" /\ fetch.response.status = 200
          /\ err' = err
    /\ (C14_CallSettled /\ fetch.state = "responded" /\ fetch.response.status = 200) =>
          /\ C14_ShowsAllOf(panel', fetch.response)
          /\ err' = err
    /\ (C14_CallSettled /\ ~(fetch.state = "responded" /\ fetch.response.status = 200)) =>
          /\ err'.shown /\ err'.text # ""
          /\ panel' = panel
    /\ C14_PredictCalled =>
          /\ panel' = panel
          /\ IF fetch'.state = "sent"
             THEN err' = NoError
             ELSE /\ fetch'.state = "none"
                  /\ err'.shown
                  /\ err'.text \in
                       {"Please complete all required fields (including dropdowns) before predicting.",
                        "Please fill all numeric fields (including 0/1 flags) before predicting.",
                        "Reporter Confidence must be between 1 and 5."}

\* C14: in the page's predict flow the result card changes only when an ok
\* response to POST /predict is handled, and then badge, severity value and
\* meter, recommended action and probabilities all show that one response;
\* when the client-side validation fails, the response is not ok or the fetch
\* is rejected, an error message is shown and the result card stays as it
\* was, a previous prediction included.  Every call of predict() starts by
\* clearing the error message: a call that sends its request leaves no
\* message, a call that stops leaves only its own.
C14_PanelOnlyFromOkResponse == [][C14_Step]_vars

\* C14 witness: the card still shows an earlier prediction while the error
\* of a later request, answered 422, is on the page.
C14_Witness ==
    /\ panel # InitPanel
    /\ err.shown
    /\ fetch.state = "settled"
    /\ fetch.response.status = 422


====
